---- MODULE Spec2Model ----
(***************************************************************************)
(* A model of the Topic class: an event emitter that publishes events on   *)
(* Redis channels through one client (publisher) and listens through a     *)
(* second client (subscriber).  Every publication is duplicated on the     *)
(* 'all' channel.                                                          *)
(*                                                                         *)
(* The two Redis clients are two connections to one server.  Each          *)
(* connection is a FIFO pipe; the server takes commands from either pipe   *)
(* in any order.  A PUBLISH is forwarded to the subscriber connection only *)
(* when the server holds a subscription of that connection for the         *)
(* channel at the moment it processes the PUBLISH.                         *)
(***************************************************************************)
EXTENDS Integers, Sequences, FiniteSets

\* ------------------------------------------------------------------ bounds

\* The number of calls made on the Topic singleton in one behaviour.
MaxCalls == 4

\* ------------------------------------------------------- program constants

\* channels.ALL
ALL == "all"

\* The channel names callers use: the reserved one and two others.
Channels == {ALL, "X", "Y"}

\* The caller's callback functions (function identities).
Callbacks == {1, 2}

\* JavaScript values: strings, numbers and BigInts.
Str(s) == [t |-> "string", s |-> s, n |-> 0]
Num(n) == [t |-> "number", s |-> "", n |-> n]
BigInt(n) == [t |-> "bigint", s |-> "", n |-> n]

\* The error JSON.stringify throws for a value it cannot serialize.
TypeError == "TypeError"

\* A function identity: a caller's callback, or a closure made by subscribe().
CallbackFn(c) == [kind |-> "callback", n |-> c]
ClosureFn(i) == [kind |-> "closure", n |-> i]

\* The keys a payload may hold, in the order JSON text lists them.
Keys == <<"text", "timestamp", "channel">>

\* The payload objects the callers own before any call: one without the
\* stamped fields, one that already has a (non-numeric) timestamp and a channel,
\* one with a field JSON.stringify cannot serialize.
InitialObjects ==
  << [text |-> Str("hello world")],
     [text |-> Str("John Doe"), timestamp |-> Str("old"), channel |-> Str("Y")],
     [text |-> BigInt(1)] >>

\* -------------------------------------------------------------------- state

VARIABLES
  disabled,    \* this.disabled
  publisher,   \* this.publisher: [status, wire], wire = commands sent, not yet processed
  subscriber,  \* this.subscriber: [status, wire, listeners, inbound]
  server,      \* the channels the Redis server holds for the subscriber connection
  objs,        \* the callers' payload objects (publish() mutates them in place)
  nCalls,      \* history: number of calls made on the Topic
  lastCall,    \* history: the name of the last call made
  nDisable,    \* history: number of disable() calls made (disconnect() makes one)
  subscribed,  \* history: the closures subscribe() created, in order
  published,   \* history: the publications that reached the sends of publish()
  unsubs,      \* history: the unsubscribe calls that passed the disabled guard
  sent,        \* history: the publish() calls issued on the publisher handle
  calls,       \* history: the callback invocations, in order
  thrown       \* history: the errors publish() raised to its caller, in order

prog == <<disabled, publisher, subscriber, server, objs>>
hist == <<subscribed, published, unsubs, sent, calls, thrown>>
vars == <<disabled, publisher, subscriber, server, objs, nCalls, lastCall, nDisable,
          subscribed, published, unsubs, sent, calls, thrown>>

\* ------------------------------------------------------------------- codec

RECURSIVE serializeFrom(_, _)
serializeFrom(data, i) ==
  IF i > Len(Keys) THEN <<>>
  ELSE IF Keys[i] \in DOMAIN data
       THEN <<<<Keys[i], data[Keys[i]]>>>> \o serializeFrom(data, i + 1)
       ELSE serializeFrom(data, i + 1)

\* JSON.stringify throws a TypeError when the object holds a BigInt.
serializeThrows(data) == \E k \in DOMAIN data : data[k].t = "bigint"

\* JSON.stringify: the text lists each key the object holds with its value.
serialize(data) == serializeFrom(data, 1)

\* JSON.parse: the object holding the keys the text lists.
deserialize(serial) ==
  [k \in {serial[i][1] : i \in 1..Len(serial)} |->
     serial[CHOOSE i \in 1..Len(serial) : serial[i][1] = k][2] ]

\* ------------------------------------------------- the Redis clients (ioredis)

\* new Redis(): an open connection with nothing in flight and no listeners.
NewPublisher == [status |-> "ready", wire |-> <<>>]
NewSubscriber == [status |-> "ready", wire |-> <<>>, listeners |-> <<>>, inbound |-> <<>>]

\* A client that writes each command ahead of the commands still in flight.
sendCommandFirst(client, cmd) ==
  IF client.status = "ready"
  THEN [client EXCEPT !.wire = <<cmd>> \o @]
  ELSE client

\* client.publish / client.subscribe / client.unsubscribe: the command is written
\* to the connection; a client that was disconnected rejects it and writes nothing.
sendCommand(client, cmd) ==
  IF client.status = "ready"
  THEN [client EXCEPT !.wire = Append(@, cmd)]
  ELSE client

RECURSIVE sendCommands(_, _)
sendCommands(client, cmds) ==
  IF cmds = <<>> THEN client
  ELSE sendCommands(sendCommand(client, Head(cmds)), Tail(cmds))

\* emitter.on('message', fn): fn is added after the listeners already there.
on(listeners, l) == Append(listeners, l)

\* emitter.removeListener('message', fn): the listener registered last whose
\* function is fn is removed; nothing happens when there is none.
removeListener(listeners, fn) ==
  LET hits == {i \in 1..Len(listeners) : listeners[i].fn = fn}
  IN IF hits = {} THEN listeners
     ELSE LET last == CHOOSE i \in hits : \A j \in hits : j <= i
          IN SubSeq(listeners, 1, last - 1) \o SubSeq(listeners, last + 1, Len(listeners))

\* client.disconnect(): the connection is closed; what was in flight is dropped.
redisDisconnect(client) ==
  [k \in DOMAIN client |->
     IF k = "status" THEN "end"
     ELSE IF k \in {"wire", "inbound"} THEN <<>>
     ELSE client[k]]

\* ------------------------------------------------------------------- Topic

\* Date.now(): a logical clock that ticks with every call on the Topic.
DateNow == nCalls + 1

\* A stamp that keeps the fields the payload already has.
stampKeepingOld(data, timestamp, channel) ==
  [k \in DOMAIN data \cup {"timestamp", "channel"} |->
     IF k \in DOMAIN data THEN data[k]
     ELSE IF k = "timestamp" THEN Num(timestamp)
     ELSE Str(channel)]

\* data.timestamp = timestamp; data.channel = channel;
stamp(data, timestamp, channel) ==
  [k \in DOMAIN data \cup {"timestamp", "channel"} |->
     IF k = "timestamp" THEN Num(timestamp)
     ELSE IF k = "channel" THEN Str(channel)
     ELSE data[k]]

\* Sends that duplicate on 'all' whatever the channel is.
publishSendsAlwaysAll(channel, serial) ==
  <<[channel |-> ALL, serial |-> serial], [channel |-> channel, serial |-> serial]>>

\* Sends with the channel's own send first and the 'all' duplicate last.
publishSendsChannelFirst(channel, serial) ==
  <<[channel |-> channel, serial |-> serial]>>
    \o (IF channel # ALL THEN <<[channel |-> ALL, serial |-> serial]>> ELSE <<>>)

\* The sends of one publish(): on 'all' first unless the channel is 'all',
\* then on the channel itself.
publishSends(channel, serial) ==
  (IF channel # ALL THEN <<[channel |-> ALL, serial |-> serial]>> ELSE <<>>)
    \o <<[channel |-> channel, serial |-> serial]>>

\* A closure that does not look at the channel.
subscriptionAnyChannel(l, chnl) == TRUE

\* The closure subscribe() registers: chnl === channel && callback(...)
subscription(l, chnl) == chnl = l.channel

Init ==
  /\ disabled = FALSE
  /\ publisher = NewPublisher
  /\ subscriber = NewSubscriber
  /\ server = {}
  /\ objs = InitialObjects
  /\ nCalls = 0
  /\ lastCall = "constructor"
  /\ nDisable = 0
  /\ subscribed = <<>>
  /\ published = <<>>
  /\ unsubs = {}
  /\ sent = <<>>
  /\ calls = <<>>
  /\ thrown = <<>>

\* History: the channels whose delivery is settled at the server: it holds the
\* subscription and no subscribe or unsubscribe of the channel is in flight.
Live ==
  {c \in server : \A i \in DOMAIN subscriber.wire : subscriber.wire[i].channel # c}

enable ==
  /\ disabled' = FALSE
  /\ UNCHANGED <<publisher, subscriber, server, objs, hist>>

\* A disable() that also drops the listeners of the subscriber.
disableDroppingListeners ==
  /\ disabled' = TRUE
  /\ subscriber' = [subscriber EXCEPT !.listeners = <<>>]
  /\ UNCHANGED <<publisher, server, objs, hist>>

disable ==
  /\ disabled' = TRUE
  /\ UNCHANGED <<publisher, subscriber, server, objs, hist>>

\* The sends of publish(), lines 218 to 224, for the serialized payload.
publishSend(channel, o, serial) ==
  LET pid == Len(published) + 1
      cmds == publishSends(channel, serial)
      tagged == [i \in 1..Len(cmds) |->
                   [channel |-> cmds[i].channel, serial |-> cmds[i].serial, pid |-> pid]]
  IN /\ publisher' = sendCommands(publisher, tagged)
     /\ published' = Append(published,
            [channel |-> channel, obj |-> o, nsubs |-> Len(subscribed),
             ndis |-> nDisable, live |-> channel \in Live])
     /\ sent' = sent \o [i \in 1..Len(tagged) |->
            [channel |-> tagged[i].channel, serial |-> tagged[i].serial,
             pid |-> pid, status |-> publisher.status]]
     /\ UNCHANGED <<disabled, subscriber, server, subscribed, unsubs, calls, thrown>>

\* A publish() that, when the payload cannot be serialized, sends on 'all'
\* what it could serialize and then raises the error.
publishSerializedPartialSend(channel, o, data) ==
  IF serializeThrows(data)
  THEN LET cmd == [channel |-> ALL, serial |-> serialize(data), pid |-> Len(published) + 1]
       IN /\ publisher' = sendCommand(publisher, cmd)
          /\ sent' = Append(sent, [channel |-> cmd.channel, serial |-> cmd.serial,
                                   pid |-> cmd.pid, status |-> publisher.status])
          /\ thrown' = Append(thrown, [error |-> TypeError, channel |-> channel, obj |-> o])
          /\ UNCHANGED <<disabled, subscriber, server, subscribed, published, unsubs, calls>>
  ELSE publishSend(channel, o, serialize(data))

\* publish() from the stamped payload on: serialize, send.  When serialize
\* throws, the error leaves publish() before the first send.
publishSerialized(channel, o, data) ==
  IF serializeThrows(data)
  THEN /\ thrown' = Append(thrown, [error |-> TypeError, channel |-> channel, obj |-> o])
       /\ UNCHANGED <<disabled, publisher, subscriber, server,
                      subscribed, published, unsubs, sent, calls>>
  ELSE publishSend(channel, o, serialize(data))

\* publish() past its guard: stamp, serialize, send.
publishEnabled(channel, o) ==
       LET data == stamp(objs[o], DateNow, channel)
       IN /\ objs' = [objs EXCEPT ![o] = data]
          /\ publishSerialized(channel, o, data)

\* A publish() that does not look at the disabled flag.
publishUnguarded(channel, o) == publishEnabled(channel, o)

publish(channel, o) ==
  IF disabled
  THEN UNCHANGED <<prog, hist>>
  ELSE publishEnabled(channel, o)

subscribe(channel, callback) ==
  IF disabled
  THEN UNCHANGED <<prog, hist>>
  ELSE LET l == [fn |-> ClosureFn(Len(subscribed) + 1),
                 channel |-> channel, callback |-> callback]
           s1 == sendCommand(subscriber, [op |-> "subscribe", channel |-> channel])
       IN /\ subscriber' = [s1 EXCEPT !.listeners = on(@, l)]
          /\ subscribed' = Append(subscribed,
                 [channel |-> channel, callback |-> callback, npub |-> Len(published),
                  ndis |-> nDisable])
          /\ UNCHANGED <<disabled, publisher, server, objs, published, unsubs, sent, calls,
                         thrown>>

unsubscribe(channel, fn) ==
  IF disabled
  THEN UNCHANGED <<prog, hist>>
  ELSE LET s1 == sendCommand(subscriber, [op |-> "unsubscribe", channel |-> channel])
       IN /\ subscriber' = [s1 EXCEPT !.listeners = removeListener(@, fn)]
          /\ unsubs' = unsubs \cup
                 {[channel |-> channel, fn |-> fn,
                   npub |-> Len(published), nsubs |-> Len(subscribed)]}
          /\ UNCHANGED <<disabled, publisher, server, objs, subscribed, published, sent, calls,
                         thrown>>

\* A disconnect() that leaves the listeners on the subscriber.
disconnectKeepingListeners ==
  /\ disabled' = TRUE
  /\ subscriber' = redisDisconnect(subscriber)
  /\ publisher' = redisDisconnect(publisher)
  /\ server' = {}
  /\ UNCHANGED <<objs, hist>>

disconnect ==
  /\ disabled' = TRUE
  /\ subscriber' = redisDisconnect([subscriber EXCEPT !.listeners = <<>>])
  /\ publisher' = redisDisconnect(publisher)
  /\ server' = {}
  /\ UNCHANGED <<objs, hist>>

\* ------------------------------------------------------- the Redis server

\* The server processes the next command of the subscriber connection.
ServerSubscriberCommand ==
  /\ subscriber.wire # <<>>
  /\ LET cmd == Head(subscriber.wire)
     IN server' = IF cmd.op = "subscribe" THEN server \cup {cmd.channel}
                  ELSE server \ {cmd.channel}
  /\ subscriber' = [subscriber EXCEPT !.wire = Tail(@)]
  /\ UNCHANGED <<disabled, publisher, objs, nCalls, lastCall, nDisable, hist>>

\* The server processes the next PUBLISH of the publisher connection: the
\* message goes to the subscriber connection when it subscribes the channel.
ServerPublisherCommand ==
  /\ publisher.wire # <<>>
  /\ LET cmd == Head(publisher.wire)
     IN subscriber' = IF cmd.channel \in server
                      THEN [subscriber EXCEPT !.inbound = Append(@, cmd)]
                      ELSE subscriber
  /\ publisher' = [publisher EXCEPT !.wire = Tail(@)]
  /\ UNCHANGED <<disabled, server, objs, nCalls, lastCall, nDisable, hist>>

\* The invocations one 'message' event makes: every listener runs, in the
\* order of registration, and calls its callback when the channel matches.
RECURSIVE emit(_, _)
emit(listeners, msg) ==
  IF listeners = <<>> THEN <<>>
  ELSE LET l == Head(listeners)
       IN (IF subscription(l, msg.channel)
           THEN <<[fn |-> l.fn, channel |-> l.channel, callback |-> l.callback,
                   data |-> deserialize(msg.serial), pid |-> msg.pid,
                   disabled |-> disabled]>>
           ELSE <<>>) \o emit(Tail(listeners), msg)

\* The subscriber client reads the next message and emits 'message'.
OnMessage ==
  /\ subscriber.inbound # <<>>
  /\ calls' = calls \o emit(subscriber.listeners, Head(subscriber.inbound))
  /\ subscriber' = [subscriber EXCEPT !.inbound = Tail(@)]
  /\ UNCHANGED <<disabled, publisher, server, objs, nCalls, lastCall, nDisable,
                 subscribed, published, unsubs, sent, thrown>>

\* ------------------------------------------------------------ specification

\* One call on the Topic singleton; disable() is counted, also when
\* disconnect() makes the call.
Call(name) ==
  /\ nCalls < MaxCalls
  /\ nCalls' = nCalls + 1
  /\ lastCall' = name
  /\ nDisable' = IF name \in {"disable", "disconnect"} THEN nDisable + 1 ELSE nDisable

CallEnable == Call("enable") /\ enable
CallDisable == Call("disable") /\ disable
CallPublish == \E c \in Channels, o \in DOMAIN objs : Call("publish") /\ publish(c, o)
CallSubscribe == \E c \in Channels, cb \in Callbacks : Call("subscribe") /\ subscribe(c, cb)
CallUnsubscribe ==
  \E c \in Channels, cb \in Callbacks : Call("unsubscribe") /\ unsubscribe(c, CallbackFn(cb))
CallDisconnect == Call("disconnect") /\ disconnect

Next ==
  \/ CallEnable
  \/ CallDisable
  \/ CallPublish
  \/ CallSubscribe
  \/ CallUnsubscribe
  \/ CallDisconnect
  \/ ServerSubscriberCommand
  \/ ServerPublisherCommand
  \/ OnMessage

Spec == Init /\ [][Next]_vars

\* ------------------------------------------------------------------ claims

\* How many times closure number f was invoked for publication number p.
Invocations(f, p) ==
  Cardinality({i \in DOMAIN calls : calls[i].fn = ClosureFn(f) /\ calls[i].pid = p})

\* The sends publication number p issued on the publisher handle, in order.
SendsOf(p) == SelectSeq(sent, LAMBDA e : e.pid = p)

\* Both connections are open and nothing is in flight: no command waits for
\* the server and no message waits for the subscriber client.
Quiescent ==
  /\ publisher.status = "ready"
  /\ subscriber.status = "ready"
  /\ publisher.wire = <<>>
  /\ subscriber.wire = <<>>
  /\ subscriber.inbound = <<>>

\* C1 Channel isolation: a callback registered with subscribe(X, cb), X other
\* than 'all', is only ever invoked for messages published with publish(X, p):
\* never for a publish on a channel Y different from X.
C1_ChannelIsolation ==
  \A i \in DOMAIN calls :
    calls[i].channel # ALL => published[calls[i].pid].channel = calls[i].channel

\* C1 witness: a message published on Y was handed to a subscriber of Y while a
\* subscription on X, made before that publish, was registered and delivered
\* by the server.
C1_Witness ==
  \E i \in DOMAIN calls :
    /\ calls[i].channel = "Y"
    /\ published[calls[i].pid].channel = "Y"
    /\ "X" \in server
    /\ \E j \in DOMAIN subscriber.listeners :
         /\ subscriber.listeners[j].channel = "X"
         /\ subscriber.listeners[j].fn.n <= published[calls[i].pid].nsubs

\* C2 All-channel fan-in (the claim as stated): once nothing is in flight,
\* every publish on a channel X other than 'all' has invoked exactly once every
\* subscription on 'all' or on X that was registered before it and is
\* registered still.
C2_AllChannelFanIn ==
  Quiescent =>
    \A p \in DOMAIN published :
      published[p].channel # ALL =>
        \A j \in DOMAIN subscriber.listeners :
          LET l == subscriber.listeners[j]
          IN (l.fn.n <= published[p].nsubs /\ l.channel \in {ALL, published[p].channel})
               => Invocations(l.fn.n, p) = 1

\* C3 No double-fan on 'all': publish('all', P) issues exactly one send, on
\* 'all', and no subscription is invoked more than once for one publish call.
C3_NoDoubleFan ==
  /\ \A p \in DOMAIN published :
       published[p].channel = ALL =>
         (Len(SendsOf(p)) = 1 /\ SendsOf(p)[1].channel = ALL)
  /\ \A f \in DOMAIN subscribed : \A p \in DOMAIN published :
       subscribed[f].channel = ALL => Invocations(f, p) <= 1

\* C3 witness: a subscription on 'all' was invoked for a publish made directly
\* on 'all', and nothing is in flight any more.
C3_Witness ==
  /\ Quiescent
  /\ \E i \in DOMAIN calls :
       calls[i].channel = ALL /\ published[calls[i].pid].channel = ALL

\* C4 Unsubscribe stops delivery (the claim as stated): after unsubscribe(X, cb)
\* with the callback cb that was passed to subscribe(X, cb), no publish on X
\* issued after the unsubscribe call invokes cb through that subscription.
C4_UnsubscribeStopsDelivery ==
  \A u \in unsubs : \A i \in DOMAIN calls :
    ~ /\ calls[i].channel = u.channel
      /\ CallbackFn(calls[i].callback) = u.fn
      /\ calls[i].fn.n <= u.nsubs
      /\ published[calls[i].pid].channel = u.channel
      /\ calls[i].pid > u.npub

\* C5 Multiplicity (the claim as stated): with one subscription, on a channel X
\* other than 'all', registered before N publish calls that are all on X, once
\* nothing is in flight the subscription was invoked exactly N times, for the
\* publications in the order the calls were made.
C5_Multiplicity ==
  ( /\ Quiescent
    /\ Len(subscribed) = 1
    /\ subscribed[1].channel # ALL
    /\ subscribed[1].npub = 0
    /\ unsubs = {}
    /\ \A p \in DOMAIN published : published[p].channel = subscribed[1].channel )
  => /\ Len(calls) = Len(published)
     /\ \A i \in DOMAIN calls : calls[i].pid = i

\* C6 Disabled no-op: a publish, subscribe or unsubscribe call made while the
\* disabled flag is set changes nothing: no send, no transport subscribe or
\* unsubscribe, no listener added or removed, no payload mutated, no callback
\* invoked.
C6_DisabledNoOp ==
  [][ ( /\ disabled
        /\ nCalls' # nCalls
        /\ lastCall' \in {"publish", "subscribe", "unsubscribe"} )
      => UNCHANGED <<prog, hist>> ]_vars

\* C6 witness: a publish call was made while disabled, with a listener
\* registered and its channel delivered by the server.
C6_Witness ==
  /\ disabled
  /\ lastCall = "publish"
  /\ publisher.status = "ready"
  /\ subscriber.listeners # <<>>
  /\ server # {}

\* C7 Stamped fields: every payload handed to a callback has a numeric
\* timestamp and a channel equal to the channel named in the publish() call
\* that produced it, whatever timestamp or channel the payload had before.
C7_StampedFields ==
  \A i \in DOMAIN calls :
    LET data == calls[i].data
    IN /\ {"timestamp", "channel"} \subseteq DOMAIN data
       /\ data["timestamp"].t = "number"
       /\ data["channel"] = Str(published[calls[i].pid].channel)

\* C7 witness: a subscriber of 'all' was handed a payload published on X that
\* came with a timestamp and a channel of its own.
C7_Witness ==
  \E i \in DOMAIN calls :
    /\ calls[i].channel = ALL
    /\ published[calls[i].pid].channel = "X"
    /\ "timestamp" \in DOMAIN InitialObjects[published[calls[i].pid].obj]

C9_SubscribeThenPublish ==
  (Quiescent /\ unsubs = {}) =>
    \A f \in DOMAIN subscribed : \A p \in DOMAIN published :
      (published[p].channel = subscribed[f].channel /\ f <= published[p].nsubs)
        => Invocations(f, p) = 1

\* C10 disconnect() effect: after disconnect() the disabled flag is set, no
\* listener is registered on the subscriber's message stream and both handles
\* are closed.
C10_DisconnectEffect ==
  lastCall = "disconnect" =>
    /\ disabled
    /\ subscriber.listeners = <<>>
    /\ publisher.status = "end"
    /\ subscriber.status = "end"

\* C10 witness: disconnect() was called right after an enabled subscribe() had
\* registered a listener.
C10_Witness ==
  /\ lastCall = "disconnect"
  /\ nCalls = 2
  /\ Len(subscribed) = 1

\* C11 DISCONNECTED is terminal (the claim as stated): once disconnect() has
\* closed the handles the Topic stays disabled with no listener registered, and
\* no publish is ever issued on a closed publisher handle.
C11_DisconnectedTerminal ==
  /\ publisher.status = "end" => (disabled /\ subscriber.listeners = <<>>)
  /\ \A i \in DOMAIN sent : sent[i].status = "ready"

\* The unsubscribe calls on channel c made after publication number p was issued.
UnsubscribedSince(c, p) == {u \in unsubs : u.channel = c /\ u.npub >= p}

\* C12 Lifecycle toggle: the Topic starts enabled; enable() and disable() set
\* the disabled flag and change nothing else (handles, listeners, transport
\* subscriptions, payloads); and a subscription made before a disable() whose
\* channel the server delivers is invoked exactly once for a publish made on
\* its channel after the enable() that followed, without subscribing again.
C12_LifecycleToggle ==
  [][ /\ (nCalls = 0 => ~disabled)
      /\ (nCalls' # nCalls /\ lastCall' \in {"enable", "disable"}) =>
           /\ disabled' = (lastCall' = "disable")
           /\ UNCHANGED <<publisher, subscriber, server, objs, hist>>
      /\ Quiescent' =>
           \A f \in DOMAIN subscribed' : \A p \in DOMAIN published' :
             ( /\ subscribed'[f].ndis < published'[p].ndis
               /\ subscribed'[f].channel = published'[p].channel
               /\ published'[p].live
               /\ UnsubscribedSince(published[p].channel, p)' = {} )
             => Invocations(f, p)' = 1
    ]_vars

\* C12 witness: subscribe, disable, enable, publish: the subscription made
\* before the disable() was invoked for the publish made after the enable().
C12_Witness ==
  /\ nCalls = 4
  /\ Len(subscribed) = 1 /\ Len(published) = 1
  /\ subscribed[1].ndis = 0 /\ published[1].ndis = 1
  /\ subscribed[1].channel = published[1].channel
  /\ Invocations(1, 1) = 1

\* C13 Co-subscriber survival (the claim as stated): with cb1 and cb2 both
\* subscribed on channel X, once unsubscribe(X, cb1) was called and nothing is
\* in flight, the subscription of cb2 was invoked exactly once for every
\* publish on X made after the unsubscribe call.
C13_CoSubscriberSurvival ==
  Quiescent =>
    \A u \in unsubs : \A f1, f2 \in 1..u.nsubs :
      ( /\ subscribed[f1].channel = u.channel
        /\ CallbackFn(subscribed[f1].callback) = u.fn
        /\ subscribed[f2].channel = u.channel
        /\ CallbackFn(subscribed[f2].callback) # u.fn )
      => \A p \in DOMAIN published :
           (p > u.npub /\ published[p].channel = u.channel) => Invocations(f2, p) = 1

\* C14 Filter removal is permanent (the claim as stated): after unsubscribe(X, cb)
\* the closure that subscribe(X, cb) registered is no longer a listener of the
\* shared stream, and it is not invoked for any publish on X made later,
\* whatever calls follow.
C14_FilterRemovalPermanent ==
  \A u \in unsubs :
    /\ \A j \in DOMAIN subscriber.listeners :
         LET l == subscriber.listeners[j]
         IN ~ (l.channel = u.channel /\ CallbackFn(l.callback) = u.fn /\ l.fn.n <= u.nsubs)
    /\ \A i \in DOMAIN calls :
         ~ ( /\ calls[i].channel = u.channel
             /\ CallbackFn(calls[i].callback) = u.fn
             /\ calls[i].fn.n <= u.nsubs
             /\ calls[i].pid > u.npub )

\* The handle of unsubscribe call u was passed to a subscribe call before it.
Registered(u) ==
  \E f \in 1..u.nsubs : CallbackFn(subscribed[f].callback) = u.fn

\* C15 Unsubscribing a never-registered handle is a no-op (the claim as stated):
\* the server stops delivering a channel to the subscriber connection only on
\* behalf of an unsubscribe call, on that channel, whose handle was registered
\* by a subscribe call: an unsubscribe with a handle never registered leaves
\* the transport-level subscription as it was.
C15_UnregisteredUnsubscribeNoOp ==
  [][ ( /\ nCalls' = nCalls
        /\ subscriber.wire # <<>>
        /\ Head(subscriber.wire).op = "unsubscribe"
        /\ Head(subscriber.wire).channel \in server
        /\ Head(subscriber.wire).channel \notin server' )
      => \E u \in unsubs : u.channel = Head(subscriber.wire).channel /\ Registered(u)
    ]_vars

\* The subscribe calls with channel c and callback cb made before publication p.
SubscribeCalls(p, c, cb) ==
  {f \in 1..published[p].nsubs :
     subscribed[f].channel = c /\ subscribed[f].callback = cb}

\* The invocations of callback cb, registered on channel c, for publication p.
CallbackInvocations(p, c, cb) ==
  {i \in DOMAIN calls :
     calls[i].pid = p /\ calls[i].channel = c /\ calls[i].callback = cb}

\* C16 No deduplication (the claim as stated): every enabled subscribe call
\* adds one filter, so, with no unsubscribe and no disconnect, after k subscribe
\* calls with the same channel X and the same callback cb a publish on X
\* invokes cb exactly k times.
C16_NoDeduplication ==
  (Quiescent /\ unsubs = {}) =>
    /\ Len(subscriber.listeners) = Len(subscribed)
    /\ \A p \in DOMAIN published : \A cb \in Callbacks :
         Cardinality(CallbackInvocations(p, published[p].channel, cb))
           = Cardinality(SubscribeCalls(p, published[p].channel, cb))

\* C17 Publish before unsubscribe is not lost (the claim as stated): after
\* subscribe(X, cb), publish(X, P1) made when the server already holds the
\* subscription, unsubscribe(X, cb) and any further publishes on X, cb has
\* been invoked exactly once in total, for P1.
C17_PublishBeforeUnsubscribe ==
  ( /\ Quiescent
    /\ Len(subscribed) = 1
    /\ subscribed[1].npub = 0
    /\ Len(published) >= 1
    /\ published[1].live
    /\ \A p \in DOMAIN published : published[p].channel = subscribed[1].channel
    /\ unsubs # {}
    /\ \A u \in unsubs : /\ u.channel = subscribed[1].channel
                         /\ u.fn = CallbackFn(subscribed[1].callback)
                         /\ u.npub = 1 )
  => /\ Len(calls) = 1
     /\ calls[1].pid = 1
     /\ calls[1].callback = subscribed[1].callback

\* C18 No callback while disabled (the claim as stated): no callback registered
\* through subscribe() is invoked for a message that arrives on the shared
\* stream while the disabled flag is set.
C18_NoCallbackWhileDisabled ==
  \A i \in DOMAIN calls : ~ calls[i].disabled

\* C19 Serialization failure is atomic with respect to sends: an enabled
\* publish(X, P) either raises the serialization error to its caller, and then
\* P cannot be serialized and no send is issued on 'all' or on X, or it raises
\* nothing, and then P can be serialized and the sends are issued.
C19_SerializationFailureAtomic ==
  [][ (nCalls' # nCalls /\ lastCall' = "publish" /\ ~ disabled) =>
        \/ /\ Len(thrown') = Len(thrown) + 1
           /\ thrown'[Len(thrown')].error = TypeError
           /\ serializeThrows(objs'[thrown'[Len(thrown')].obj])
           /\ UNCHANGED <<publisher, sent, published, subscriber, server, calls>>
        \/ /\ thrown' = thrown
           /\ Len(published') = Len(published) + 1
           /\ ~ serializeThrows(objs'[published'[Len(published')].obj])
           /\ Len(sent') > Len(sent)
           /\ sent'[Len(sent')].pid = Len(published')
    ]_vars

\* A publish raised the error, and another one, before or after it, was sent.
C19_Witness ==
  /\ Len(thrown) = 1
  /\ Len(published) = 1
  /\ Len(sent) = 2
  /\ publisher.wire # <<>>

\* C20 Cross-channel delivery order within one process: the callbacks run in
\* the order of the publications, whatever their channels.  When a callback
\* runs for a publication q, no callback runs later for a publication made
\* before q, nothing of an earlier publication is still in flight, and every
\* subscription the server held when an earlier publication p was made on its
\* channel, and which nobody unsubscribed, has had its callback invoked for p.
C20_CrossChannelOrder ==
  \A j \in DOMAIN calls :
    /\ \A i \in 1..j : calls[i].pid <= calls[j].pid
    /\ \A k \in DOMAIN publisher.wire : publisher.wire[k].pid >= calls[j].pid
    /\ \A k \in DOMAIN subscriber.inbound : subscriber.inbound[k].pid >= calls[j].pid
    /\ \A p \in 1..(calls[j].pid - 1) : \A f \in 1..published[p].nsubs :
         ( /\ subscribed[f].channel = published[p].channel
           /\ published[p].live
           /\ unsubs = {} )
         => \E i \in 1..j : calls[i].fn = ClosureFn(f) /\ calls[i].pid = p

\* A publish on X and a later publish on Y, each delivered to its own subscriber.
C20_Witness ==
  \E i, j \in DOMAIN calls :
    /\ i < j
    /\ calls[i].pid = 1 /\ calls[i].channel = "X" /\ published[1].channel = "X"
    /\ calls[j].pid = 2 /\ calls[j].channel = "Y" /\ published[2].channel = "Y"
    /\ published[1].live

====
